---- MODULE Spec2Model ----
(***************************************************************************)
(* Model of ichik-editor 1.0.0 (src/ichik-editor-1.0.0.js): the URL        *)
(* validator enforceHttps, the text sanitizer escapeHtml, the recursive    *)
(* serializer parseToMd / Editor.getMarkdown, and the popup handlers that  *)
(* attach validated URLs to the content tree.                              *)
(*                                                                         *)
(* A JavaScript string is modelled as a sequence of one-character strings, *)
(* so that trimming, case folding, prefix tests, regular expressions and   *)
(* character replacement are computed the way the code computes them.      *)
(***************************************************************************)
EXTENDS Integers, Sequences, FiniteSets, TLC

VARIABLES
    editorEl,        \* inst.editorEl: the contentEditable root and its subtree
    sel,             \* window.getSelection(): 0 = caret at the end of the editor,
                     \*   i > 0 = the i-th top-level node is selected
    savedSelection,  \* inst.savedSelection
    popupEl,         \* inst.popupEl: display, and the type and node its save handler captured
    emojiPickerEl,   \* inst.emojiPickerEl.style.display
    alerts,          \* messages passed to alert() by the handler that ran last
    execLog,         \* document.execCommand / setAttribute calls of that handler
    ret,             \* value returned by the call that ran last
    arg,             \* argument of the pure function under test
    pc               \* position of the caller of the pure function under test

vars == <<editorEl, sel, savedSelection, popupEl, emojiPickerEl,
          alerts, execLog, ret, arg, pc>>

----------------------------------------------------------------------------
(* Bounds *)

MaxPad == 1      \* whitespace characters before / after a URL input
MaxBody == 2     \* characters following the scheme part of a URL input
MaxText == 3     \* length of a text handed to escapeHtml
MaxKids == 2     \* children of an element of a tree handed to the serializer
MaxNodes == 1    \* top-level nodes the user puts into the editor

----------------------------------------------------------------------------
(* JavaScript strings *)

SeqUpTo(S, n) == UNION {[1..k -> S] : k \in 0..n}

UpperChars == <<"A","B","C","D","E","F","G","H","I","J","K","L","M",
                "N","O","P","Q","R","S","T","U","V","W","X","Y","Z">>
LowerChars == <<"a","b","c","d","e","f","g","h","i","j","k","l","m",
                "n","o","p","q","r","s","t","u","v","w","x","y","z">>
DigitChars == {"0","1","2","3","4","5","6","7","8","9"}
Range(s) == {s[i] : i \in DOMAIN s}

\* White space removed by String.prototype.trim (ASCII part).
WhiteSpace == {" ", "\t", "\n", "\r", "\f"}

toLowerCaseChar(c) ==
    IF \E k \in DOMAIN UpperChars : UpperChars[k] = c
    THEN LowerChars[CHOOSE k \in DOMAIN UpperChars : UpperChars[k] = c]
    ELSE c

toLowerCase(s) == [i \in DOMAIN s |-> toLowerCaseChar(s[i])]

RECURSIVE trimStart(_)
trimStart(s) ==
    IF s # <<>> /\ Head(s) \in WhiteSpace THEN trimStart(Tail(s)) ELSE s

RECURSIVE trimEnd(_)
trimEnd(s) ==
    IF s # <<>> /\ s[Len(s)] \in WhiteSpace
    THEN trimEnd(SubSeq(s, 1, Len(s) - 1)) ELSE s

trim(s) == trimEnd(trimStart(s))

startsWith(s, p) == Len(s) >= Len(p) /\ SubSeq(s, 1, Len(p)) = p

\* String.prototype.replace(/c/g, rep) for a one-character pattern c.
RECURSIVE replaceAll(_, _, _)
replaceAll(s, c, rep) ==
    IF s = <<>> THEN <<>>
    ELSE (IF Head(s) = c THEN rep ELSE <<Head(s)>>) \o replaceAll(Tail(s), c, rep)

\* JavaScript truthiness of a string: the empty string is falsy.
Truthy(s) == s # <<>>

\* A value that is either null / undefined or a string.
Null == [null |-> TRUE, val |-> <<>>]
Some(s) == [null |-> FALSE, val |-> s]
TruthyVal(r) == ~r.null /\ Truthy(r.val)

\* String literals of the source.
S_https == <<"h","t","t","p","s",":","/","/">>
S_http == <<"h","t","t","p",":","/","/">>
S_sep == <<":","/","/">>

----------------------------------------------------------------------------
(* 2. STATELESS HELPERS *)

\* DEFAULT_LABELS.alerts: the messages are identified by their keys.
messages == [httpsRequired |-> "httpsRequired", invalidProtocol |-> "invalidProtocol"]

\* /^[a-zA-Z0-9\-\.]+:\/\// .test(url)
SchemeChars == Range(UpperChars) \cup Range(LowerChars) \cup DigitChars \cup {"-", "."}
SchemeRegex(url) ==
    \E k \in 1..Len(url) :
        /\ \A i \in 1..k : url[i] \in SchemeChars
        /\ Len(url) >= k + 3
        /\ SubSeq(url, k + 1, k + 3) = S_sep

\* Variant: the generic scheme test runs before the http:// test.
enforceHttps_schemeFirst(inputUrl, msgs) ==
    IF ~Truthy(inputUrl) THEN [ret |-> Null, alerts |-> <<>>]
    ELSE LET url == trim(inputUrl) IN
         IF startsWith(toLowerCase(url), S_https)
         THEN [ret |-> Some(url), alerts |-> <<>>]
         ELSE IF SchemeRegex(url)
         THEN [ret |-> Null, alerts |-> <<msgs.invalidProtocol>>]
         ELSE IF startsWith(toLowerCase(url), S_http)
         THEN [ret |-> Null, alerts |-> <<msgs.httpsRequired>>]
         ELSE [ret |-> Some(S_https \o url), alerts |-> <<>>]

\* Variant: the input is not trimmed.
enforceHttps_noTrim(inputUrl, msgs) ==
    IF ~Truthy(inputUrl) THEN [ret |-> Null, alerts |-> <<>>]
    ELSE LET url == inputUrl IN
         IF startsWith(toLowerCase(url), S_https)
         THEN [ret |-> Some(url), alerts |-> <<>>]
         ELSE IF startsWith(toLowerCase(url), S_http)
         THEN [ret |-> Null, alerts |-> <<msgs.httpsRequired>>]
         ELSE IF SchemeRegex(url)
         THEN [ret |-> Null, alerts |-> <<msgs.invalidProtocol>>]
         ELSE [ret |-> Some(S_https \o url), alerts |-> <<>>]

\* enforceHttps returns a value and may call alert(): the model returns both.
enforceHttps(inputUrl, msgs) ==
    IF ~Truthy(inputUrl) THEN [ret |-> Null, alerts |-> <<>>]
    ELSE LET url == trim(inputUrl) IN
         IF startsWith(toLowerCase(url), S_https)
         THEN [ret |-> Some(url), alerts |-> <<>>]
         ELSE IF startsWith(toLowerCase(url), S_http)
         THEN [ret |-> Null, alerts |-> <<msgs.httpsRequired>>]
         ELSE IF SchemeRegex(url)
         THEN [ret |-> Null, alerts |-> <<msgs.invalidProtocol>>]
         ELSE [ret |-> Some(S_https \o url), alerts |-> <<>>]

E_amp == <<"&","a","m","p",";">>
E_lt == <<"&","l","t",";">>
E_gt == <<"&","g","t",";">>
E_quot == <<"&","q","u","o","t",";">>
E_apos == <<"&","#","0","3","9",";">>

Entities == {E_amp, E_lt, E_gt, E_quot, E_apos}

\* Variant: the ampersand rule runs last.
escapeHtml_ampLast(text) ==
    IF ~Truthy(text) THEN <<>>
    ELSE replaceAll(replaceAll(replaceAll(replaceAll(replaceAll(text,
            "<", E_lt), ">", E_gt), "\"", E_quot), "'", E_apos), "&", E_amp)

\* Variant: an ampersand that already starts an entity is left alone.
RECURSIVE replaceBareAmp(_)
replaceBareAmp(s) ==
    IF s = <<>> THEN <<>>
    ELSE (IF Head(s) = "&" /\ ~\E e \in Entities : startsWith(s, e)
          THEN E_amp ELSE <<Head(s)>>) \o replaceBareAmp(Tail(s))

escapeHtml_keepEntities(text) ==
    IF ~Truthy(text) THEN <<>>
    ELSE replaceAll(replaceAll(replaceAll(replaceAll(replaceBareAmp(text),
            "<", E_lt), ">", E_gt), "\"", E_quot), "'", E_apos)

escapeHtml(text) ==
    IF ~Truthy(text) THEN <<>>
    ELSE replaceAll(replaceAll(replaceAll(replaceAll(replaceAll(text,
            "&", E_amp), "<", E_lt), ">", E_gt), "\"", E_quot), "'", E_apos)

----------------------------------------------------------------------------
(* DOM nodes *)

TEXT_NODE == 3
ELEMENT_NODE == 1

\* An element's attributes are a set of <<name, value>> pairs, one per name.
TextNode(s) == [nodeType |-> TEXT_NODE, textContent |-> s]
Element(tag, attrs, kids) ==
    [nodeType |-> ELEMENT_NODE, tagName |-> tag, attrs |-> attrs, childNodes |-> kids]

getAttribute(node, name) ==
    IF \E p \in node.attrs : p[1] = name
    THEN Some((CHOOSE p \in node.attrs : p[1] = name)[2])
    ELSE Null

setAttribute(node, name, value) ==
    [node EXCEPT !.attrs = {p \in @ : p[1] # name} \cup {<<name, value>>}]

removeAttribute(node, name) ==
    [node EXCEPT !.attrs = {p \in @ : p[1] # name}]

\* Template-literal interpolation `${v}`: null is rendered as "null".
Interp(v) == IF v.null THEN <<"n","u","l","l">> ELSE v.val

\* Number-to-string conversion of (index + 1) + '. '
DigitStr == <<"0","1","2","3","4","5","6","7","8","9">>
RECURSIVE NumToStr(_)
NumToStr(n) ==
    IF n < 10 THEN <<DigitStr[n + 1]>>
    ELSE NumToStr(n \div 10) \o <<DigitStr[(n % 10) + 1]>>

\* Array.from(parent.children).indexOf(node): parent.children holds the
\* element children only; pos is the node's place in parent.childNodes.
childrenIndexOf(parent, pos) ==
    Cardinality({j \in 1..pos : parent.childNodes[j].nodeType = ELEMENT_NODE}) - 1

Hashes(n) == [i \in 1..n |-> "#"]
Heading(n, content) == Hashes(n) \o <<" ">> \o content \o <<"\n","\n">>

\* case 'LI' of parseToMd
caseLI(parent, pos, content) ==
    LET index == IF parent.tagName = "OL"
                 THEN NumToStr(childrenIndexOf(parent, pos) + 1) \o <<".", " ">>
                 ELSE <<"-", " ">>
    IN index \o content \o <<"\n">>

S_imgOpen == <<"\n","<","i","m","g"," ","s","r","c","=","\"">>
S_imgAlt == <<"\""," ","a","l","t","=","\"">>
S_imgWidth == <<"\""," ","w","i","d","t","h","=","\"">>
S_imgClose == <<"\"",">","\n">>

\* Variant: the raw tag is chosen whenever the width attribute exists.
caseIMG_widthPresent(node) ==
    LET altAttr == getAttribute(node, "alt")
        alt == IF TruthyVal(altAttr) THEN altAttr.val ELSE <<>>
        src == getAttribute(node, "src")
        width == getAttribute(node, "width")
    IN IF ~width.null
       THEN S_imgOpen \o Interp(src) \o S_imgAlt \o alt
            \o S_imgWidth \o Interp(width) \o S_imgClose
       ELSE <<"\n","!","[">> \o alt \o <<"]","(">> \o Interp(src) \o <<")","\n">>

\* case 'IMG' of parseToMd
caseIMG(node) ==
    LET altAttr == getAttribute(node, "alt")
        alt == IF TruthyVal(altAttr) THEN altAttr.val ELSE <<>>
        src == getAttribute(node, "src")
        width == getAttribute(node, "width")
    IN IF TruthyVal(width)
       THEN S_imgOpen \o Interp(src) \o S_imgAlt \o alt
            \o S_imgWidth \o Interp(width) \o S_imgClose
       ELSE <<"\n","!","[">> \o alt \o <<"]","(">> \o Interp(src) \o <<")","\n">>

RECURSIVE parseToMd(_, _, _)
RECURSIVE parseChildren(_, _)

\* node.childNodes.forEach(child => content += parseToMd(child)), from child i on
parseChildren(node, i) ==
    IF i > Len(node.childNodes) THEN <<>>
    ELSE parseToMd(node.childNodes[i], node, i) \o parseChildren(node, i + 1)

\* Variant: a DIV or P is closed with a blank line whatever its content.
parseToMd_alwaysBlock(node, parent, pos) ==
    IF node.nodeType = TEXT_NODE THEN escapeHtml(node.textContent)
    ELSE LET content == parseChildren(node, 1)
             tag == node.tagName
         IN
         CASE tag \in {"B", "STRONG"} -> <<"*","*">> \o content \o <<"*","*">>
           [] tag \in {"I", "EM"} -> <<"*">> \o content \o <<"*">>
           [] tag = "H1" -> Heading(1, content)
           [] tag = "H2" -> Heading(2, content)
           [] tag = "H3" -> Heading(3, content)
           [] tag = "H4" -> Heading(4, content)
           [] tag = "H5" -> Heading(5, content)
           [] tag = "H6" -> Heading(6, content)
           [] tag \in {"DIV", "P"} -> content \o <<"\n","\n">>
           [] tag = "BR" -> <<"\n">>
           [] tag \in {"UL", "OL"} -> content \o <<"\n">>
           [] tag = "LI" -> caseLI(parent, pos, content)
           [] tag = "HR" -> <<"\n","-","-","-","\n","\n">>
           [] tag = "A" ->
                <<"[">> \o content \o <<"]","(">> \o Interp(getAttribute(node, "href")) \o <<")">>
           [] tag = "IMG" -> caseIMG(node)
           [] OTHER -> content

\* parseToMd(node); parent is node.parentElement and pos the place of node in it.
parseToMd(node, parent, pos) ==
    IF node.nodeType = TEXT_NODE THEN escapeHtml(node.textContent)
    ELSE LET content == parseChildren(node, 1)
             tag == node.tagName
         IN
         CASE tag \in {"B", "STRONG"} -> <<"*","*">> \o content \o <<"*","*">>
           [] tag \in {"I", "EM"} -> <<"*">> \o content \o <<"*">>
           [] tag = "H1" -> Heading(1, content)
           [] tag = "H2" -> Heading(2, content)
           [] tag = "H3" -> Heading(3, content)
           [] tag = "H4" -> Heading(4, content)
           [] tag = "H5" -> Heading(5, content)
           [] tag = "H6" -> Heading(6, content)
           [] tag \in {"DIV", "P"} ->
                IF Truthy(trim(content)) THEN content \o <<"\n","\n">> ELSE <<>>
           [] tag = "BR" -> <<"\n">>
           [] tag \in {"UL", "OL"} -> content \o <<"\n">>
           [] tag = "LI" -> caseLI(parent, pos, content)
           [] tag = "HR" -> <<"\n","-","-","-","\n","\n">>
           [] tag = "A" ->
                <<"[">> \o content \o <<"]","(">> \o Interp(getAttribute(node, "href")) \o <<")">>
           [] tag = "IMG" -> caseIMG(node)
           [] OTHER -> content

\* inst.container, the parent of the editor root.
container(root) == Element("DIV", {}, <<root>>)

\* Editor.getMarkdown()
getMarkdown(root) == trim(parseToMd(root, container(root), 1))

----------------------------------------------------------------------------
(* State after the constructor (initEditor) *)

NoNode == 0          \* existingNode = null
NoRange == -1        \* inst.savedSelection = null

PopupInit ==
    [display |-> "none", type |-> "", existingNode |-> NoNode]

EmptyEditor == Element("DIV", {}, <<>>)

InitEditorState ==
    /\ sel = 0
    /\ savedSelection = NoRange
    /\ popupEl = PopupInit
    /\ emojiPickerEl = "none"
    /\ alerts = <<>>
    /\ execLog = <<>>
    /\ ret = Null

\* closeAllPopups(inst), as the new value of inst.popupEl
closedPopup == [popupEl EXCEPT !.display = "none"]

\* Variant: the export closes the popups before it reads the tree.
GetMarkdown_closingPopups ==
    /\ pc = "idle"
    /\ ret' = Some(getMarkdown(editorEl))
    /\ alerts' = <<>>
    /\ execLog' = <<>>
    /\ popupEl' = closedPopup
    /\ emojiPickerEl' = "none"
    /\ UNCHANGED <<editorEl, sel, savedSelection, arg, pc>>

\* Editor.getMarkdown(): reads the tree, returns the trimmed Markdown.
GetMarkdown ==
    /\ pc = "idle"
    /\ ret' = Some(getMarkdown(editorEl))
    /\ alerts' = <<>>
    /\ execLog' = <<>>
    /\ UNCHANGED <<editorEl, sel, savedSelection, popupEl, emojiPickerEl, arg, pc>>

----------------------------------------------------------------------------
(* The URL validator on its own: SpecUrl *)

S_javascript == <<"j","a","v","a","s","c","r","i","p","t",":">>
S_data == <<"d","a","t","a",":">>
S_vbscript == <<"v","b","s","c","r","i","p","t",":">>
S_jsAlert == S_javascript \o <<"a","l","e","r","t","(","1",")">>
S_exampleCom == <<"e","x","a","m","p","l","e",".","c","o","m">>

UrlPads == SeqUpTo({" ", "\n"}, MaxPad)
UrlBodies == SeqUpTo({"x", ":", "/"}, MaxBody)
UrlPrefixes ==
    { <<>>,
      S_https, <<"H","T","T","P","S",":","/","/">>, <<"h","T","t","p","S",":","/","/">>,
      S_http, <<"H","T","T","P",":","/","/">>, <<"h","T","t","P",":","/","/">>,
      <<"f","t","p",":","/","/">>, <<"a","-","b",".","C","3",":","/","/">>,
      <<"h","t","t","p","s",":","/">>, <<"h","t","t","p",":">>,
      <<"h","t"," ","t","p",":","/","/">>, <<"_","a",":","/","/">>,
      S_javascript, <<"J","a","v","a","S","c","r","i","p","t",":">>, S_data, S_vbscript }

UrlInputs ==
    {l \o p \o b \o t : l \in UrlPads, p \in UrlPrefixes, b \in UrlBodies, t \in UrlPads}
    \cup {S_jsAlert, S_exampleCom, S_http \o S_exampleCom}

InitUrl ==
    /\ InitEditorState
    /\ editorEl = EmptyEditor
    /\ arg \in UrlInputs
    /\ pc = "call"

CallEnforceHttps ==
    /\ pc = "call"
    /\ LET r == enforceHttps(arg, messages) IN
         /\ ret' = r.ret
         /\ alerts' = r.alerts
    /\ pc' = "done"
    /\ UNCHANGED <<editorEl, sel, savedSelection, popupEl, emojiPickerEl, execLog, arg>>

NextUrl == CallEnforceHttps

SpecUrl == InitUrl /\ [][NextUrl]_vars

----------------------------------------------------------------------------
(* The text sanitizer on its own: SpecEsc *)

EscChars == {"&", "<", ">", "\"", "'", "a"}
EscInputs == SeqUpTo(EscChars, MaxText)

InitEsc ==
    /\ InitEditorState
    /\ editorEl = EmptyEditor
    /\ arg \in EscInputs
    /\ pc = "call"

\* escapeHtml(t)
CallEscapeHtml ==
    /\ pc = "call"
    /\ ret' = Some(escapeHtml(arg))
    /\ pc' = "once"
    /\ UNCHANGED <<editorEl, sel, savedSelection, popupEl, emojiPickerEl,
                   alerts, execLog, arg>>

\* escapeHtml(escapeHtml(t)): the result of the first call is escaped again
CallEscapeHtmlAgain ==
    /\ pc = "once"
    /\ ret' = Some(escapeHtml(ret.val))
    /\ pc' = "twice"
    /\ UNCHANGED <<editorEl, sel, savedSelection, popupEl, emojiPickerEl,
                   alerts, execLog, arg>>

NextEsc == CallEscapeHtml \/ CallEscapeHtmlAgain

SpecEsc == InitEsc /\ [][NextEsc]_vars

----------------------------------------------------------------------------
(* Claims about the URL validator (SpecUrl) *)

NamesBlockedScheme(u) ==
    \E p \in {S_javascript, S_data, S_vbscript} : startsWith(toLowerCase(trim(u)), p)

\* C1: "javascript:alert(1)" is rejected with the invalidProtocol message, and
\* every input naming the javascript:, data: or vbscript: scheme is rejected,
\* never returned as an accepted URL.
C1_DangerousSchemeRejected ==
    pc = "done" =>
        /\ (arg = S_jsAlert => ret = Null /\ alerts = <<messages.invalidProtocol>>)
        /\ (NamesBlockedScheme(arg) => ret = Null)

\* C3: an input that is empty after trimming is rejected without any message.
C3_BlankRejectedSilently ==
    pc = "done" /\ trim(arg) = <<>> => ret = Null /\ alerts = <<>>

\* C4: an input whose trimmed form starts with http:// in any letter case is
\* rejected with exactly the httpsRequired message, never invalidProtocol; no
\* call surfaces more than one message and a message is surfaced only on
\* rejection.
C4_HttpRejectedHttpsRequired ==
    pc = "done" =>
        /\ (startsWith(toLowerCase(trim(arg)), S_http) =>
                ret = Null /\ alerts = <<messages.httpsRequired>>)
        /\ Len(alerts) <= 1
        /\ (alerts # <<>> => ret = Null)

C4_Witness ==
    /\ pc = "done"
    /\ startsWith(toLowerCase(trim(arg)), S_http)
    /\ ~startsWith(trim(arg), S_http)
    /\ trim(arg) # arg
    /\ ret = Null
    /\ alerts = <<messages.httpsRequired>>

NoScheme(u) ==
    /\ ~startsWith(toLowerCase(u), S_https)
    /\ ~startsWith(toLowerCase(u), S_http)
    /\ ~SchemeRegex(u)

\* C5: a non-blank input without any scheme is accepted as "https://" followed
\* by the trimmed input; an input already starting with https:// (any case) is
\* returned trimmed and otherwise unchanged.
C5_SchemeLessGetsHttps ==
    pc = "done" =>
        LET u == trim(arg) IN
        /\ (u # <<>> /\ NoScheme(u) => ret = Some(S_https \o u) /\ alerts = <<>>)
        /\ (startsWith(toLowerCase(u), S_https) => ret = Some(u) /\ alerts = <<>>)
        /\ (arg = S_exampleCom => ret = Some(S_https \o S_exampleCom))

C5_Witness ==
    /\ pc = "done"
    /\ trim(arg) # arg
    /\ trim(arg) # <<>>
    /\ NoScheme(trim(arg))
    /\ ret = Some(S_https \o trim(arg))

----------------------------------------------------------------------------
(* Claims about the text sanitizer (SpecEsc) *)

SpecialChars == {"&", "<", ">", "\"", "'"}

EntityOf(c) ==
    CASE c = "&" -> E_amp
      [] c = "<" -> E_lt
      [] c = ">" -> E_gt
      [] c = "\"" -> E_quot
      [] c = "'" -> E_apos
      [] OTHER -> <<c>>

RECURSIVE EscapePerChar(_)
EscapePerChar(s) ==
    IF s = <<>> THEN <<>> ELSE EntityOf(Head(s)) \o EscapePerChar(Tail(s))

\* C6: escapeHtml maps every string, the empty one to the empty one, replacing
\* each of & < > " ' by its entity and nothing else, so the output has no raw
\* < > " ' and every & in it starts one of the five entities.
C6_EscapesFiveChars ==
    pc = "once" =>
        LET out == ret.val IN
        /\ out = EscapePerChar(arg)
        /\ (arg = <<>> => out = <<>>)
        /\ \A i \in DOMAIN out : out[i] \notin {"<", ">", "\"", "'"}
        /\ \A i \in DOMAIN out :
               out[i] = "&" =>
                   \E e \in Entities : startsWith(SubSeq(out, i, Len(out)), e)

C6_Witness ==
    /\ pc = "once"
    /\ {"&", "<"} \subseteq Range(arg)
    /\ ret.val = EscapePerChar(arg)
    /\ Len(ret.val) > Len(arg)

\* C7 as claimed: for every text, escaping twice differs from escaping once.
C7_NeverIdempotent ==
    pc = "twice" => ret.val # escapeHtml(arg)

\* C7 as amended: escaping twice differs from escaping once exactly for the
\* texts that contain one of & < > " '; a text without them is returned
\* unchanged by both.
C7_NotIdempotentOnSpecials ==
    pc = "twice" =>
        /\ (Range(arg) \cap SpecialChars # {} => ret.val # escapeHtml(arg))
        /\ (Range(arg) \cap SpecialChars = {} => ret.val = arg /\ escapeHtml(arg) = arg)

C7_Witness ==
    /\ pc = "twice"
    /\ arg = <<"<">>
    /\ ret.val = <<"&","a","m","p",";","l","t",";">>

----------------------------------------------------------------------------
(* The serializer on its own: SpecSer.  The tree is any content the host can
   load with setHTML; getMarkdown is then called on it. *)

BR == Element("BR", {}, <<>>)
HR == Element("HR", {}, <<>>)
T_a == TextNode(<<"a">>)
T_b == TextNode(<<"b">>)
T_script == TextNode(<<"<","s","c","r","i","p","t",">">>)

SerTexts == {T_a, TextNode(<<" ">>), TextNode(<<"<">>)}

SerImages ==
    {Element("IMG", s \cup a \cup w, <<>>) :
        s \in {{}, {<<"src", <<"u">>>>}},
        a \in {{}, {<<"alt", <<>>>>}, {<<"alt", <<"x">>>>}},
        w \in {{}, {<<"width", <<>>>>}, {<<"width", <<"5">>>>}}}

LI(kids) == Element("LI", {}, kids)
InnerLists == {Element(t, {}, k) : t \in {"OL", "UL"}, k \in SeqUpTo({LI(<<T_a>>)}, MaxKids)}
ListKids ==
    {LI(<<>>), LI(<<T_a>>), BR, TextNode(<<" ">>)}
    \cup InnerLists \cup {LI(<<l>>) : l \in InnerLists}
ListTrees == {Element(t, {}, k) : t \in {"OL", "UL"}, k \in SeqUpTo(ListKids, MaxKids)}

BlockKids ==
    SerTexts \cup {BR}
    \cup {Element("IMG", {<<"src", <<"u">>>>}, <<>>),
          Element("IMG", {<<"src", <<"u">>>>, <<"width", <<"5">>>>}, <<>>)}
BlockTrees ==
    {Element(t, {}, k) :
        t \in {"P", "DIV", "H1", "H6", "B", "EM", "SPAN", "LI"},
        k \in SeqUpTo(BlockKids, MaxKids)}
    \cup {Element("A", h, k) :
        h \in {{}, {<<"href", <<"u">>>>}}, k \in SeqUpTo(BlockKids, MaxKids)}

HostTrees ==
    {EmptyEditor}
    \cup {Element("DIV", {}, <<t>>) : t \in ListTrees \cup BlockTrees \cup SerImages \cup {HR}}
    \cup {Element("DIV", {}, <<Element("OL", {}, <<LI(<<T_a>>), LI(<<T_b>>)>>)>>),
          Element("DIV", {}, <<Element("P", {}, <<T_script>>)>>)}

\* Editor.setHTML(html) on the freshly constructed editor.
InitSer ==
    /\ InitEditorState
    /\ editorEl \in HostTrees
    /\ arg = <<>>
    /\ pc = "idle"

NextSer == GetMarkdown

SpecSer == InitSer /\ [][NextSer]_vars

\* Every node of the tree below root, as <<parent, position in parent.childNodes>>.
RECURSIVE Occurrences(_)
Occurrences(node) ==
    IF node.nodeType = TEXT_NODE THEN {}
    ELSE {<<node, i>> : i \in DOMAIN node.childNodes}
         \cup UNION {Occurrences(node.childNodes[i]) : i \in DOMAIN node.childNodes}

NodeAt(o) == o[1].childNodes[o[2]]
IsTag(n, tag) == n.nodeType = ELEMENT_NODE /\ n.tagName = tag
Serialized(o) == parseToMd(NodeAt(o), o[1], o[2])

----------------------------------------------------------------------------
(* Claims about the serializer (SpecSer) *)

\* 1-based position of the item among the list items of its parent.
ListItemOrdinal(parent, pos) ==
    Cardinality({j \in 1..pos : IsTag(parent.childNodes[j], "LI")})

S_ab == <<"1","."," ","a","\n","2","."," ","b","\n","\n">>

\* C9: a list item under an ordered list is rendered as "k. " + content + "\n"
\* with k its 1-based position among the sibling list items (1, 2, 3, ...
\* without gaps, nested lists restarting at 1); under any other parent the
\* prefix is "- "; OL[LI a, LI b] gives "1. a\n2. b\n\n".
C9_ListItemNumbering ==
    ~ret.null =>
        \A o \in Occurrences(editorEl) :
            /\ IsTag(NodeAt(o), "LI") =>
                 Serialized(o) =
                    (IF o[1].tagName = "OL"
                     THEN NumToStr(ListItemOrdinal(o[1], o[2])) \o <<".", " ">>
                     ELSE <<"-", " ">>)
                    \o parseChildren(NodeAt(o), 1) \o <<"\n">>
            /\ NodeAt(o) = Element("OL", {}, <<LI(<<T_a>>), LI(<<T_b>>)>>) =>
                 Serialized(o) = S_ab

AttrText(node, name) == Interp(getAttribute(node, name))
AltText(node) == IF getAttribute(node, "alt").null THEN <<>> ELSE AttrText(node, "alt")
RawImgForm(node) ==
    <<"\n","<","i","m","g"," ","s","r","c","=","\"">> \o AttrText(node, "src")
    \o <<"\""," ","a","l","t","=","\"">> \o AltText(node)
    \o <<"\""," ","w","i","d","t","h","=","\"">> \o AttrText(node, "width")
    \o <<"\"",">","\n">>
MdImgForm(node) ==
    <<"\n","!","[">> \o AltText(node) \o <<"]","(">> \o AttrText(node, "src") \o <<")","\n">>

----------------------------------------------------------------------------
(* 3. CORE LOGIC: the editor instance and its handlers (Spec) *)

\* EMOJI_LIST; a code point is written as one ASCII token.
EMOJI_LIST == <<"U+1F600">>

\* /^\d+(px|%)?$/ .test(w)
WidthRegex(w) ==
    \E k \in 1..Len(w) :
        /\ \A i \in 1..k : w[i] \in DigitChars
        /\ SubSeq(w, k + 1, Len(w)) \in {<<>>, <<"p","x">>, <<"%">>}

\* dummyImg.outerHTML writes an attribute value with & and " escaped ...
outerHTMLAttr(v) == replaceAll(replaceAll(v, "&", E_amp), "\"", E_quot)

\* ... and the HTML parser behind insertHTML decodes the character references.
RECURSIVE parseAttrValue(_)
parseAttrValue(s) ==
    IF s = <<>> THEN <<>>
    ELSE IF startsWith(s, E_amp) THEN <<"&">> \o parseAttrValue(SubSeq(s, 6, Len(s)))
    ELSE IF startsWith(s, E_quot) THEN <<"\"">> \o parseAttrValue(SubSeq(s, 7, Len(s)))
    ELSE <<Head(s)>> \o parseAttrValue(Tail(s))

\* The node that insertHTML builds from dummyImg.outerHTML.
insertedFromOuterHTML(node) ==
    [node EXCEPT !.attrs = {<<p[1], parseAttrValue(outerHTMLAttr(p[2]))>> : p \in @}]

kids == editorEl.childNodes
withKids(k) == [editorEl EXCEPT !.childNodes = k]

\* Browser: content inserted at the selection replaces the selected node, or
\* is appended at the caret.
insertAtSelection(k, s, node) ==
    IF s > 0 THEN [k EXCEPT ![s] = node] ELSE Append(k, node)

\* Browser: execCommand('createLink', false, href) on the selection.
createLink(k, s, href) ==
    IF s = 0 THEN k
    ELSE IF IsTag(k[s], "A") THEN [k EXCEPT ![s] = setAttribute(@, "href", href)]
    ELSE [k EXCEPT ![s] = Element("A", {<<"href", href>>}, <<@>>)]

\* Browser: execCommand('unlink') on the selection.
unlink(k, s) ==
    IF s > 0 /\ IsTag(k[s], "A") THEN [k EXCEPT ![s] = @.childNodes[1]] ELSE k

\* getLinkAtCursor(inst): the link the selection is in, or null
getLinkAtCursor == IF sel > 0 /\ IsTag(kids[sel], "A") THEN sel ELSE NoNode

\* getImageAtCursor(inst): the selected image, or null
getImageAtCursor == IF sel > 0 /\ IsTag(kids[sel], "IMG") THEN sel ELSE NoNode

AnyPopupShown == emojiPickerEl # "none" \/ popupEl.display # "none"

NoEffects ==
    /\ alerts' = <<>>
    /\ execLog' = <<>>
    /\ ret' = Null

Call(fn, a) == [fn |-> fn, arg |-> a]

Init ==
    /\ InitEditorState
    /\ editorEl = EmptyEditor
    /\ arg = <<>>
    /\ pc = "idle"

TypedTexts == {<<"a">>, <<"<", "\"">>}

\* Typing, or the paste listener: execCommand('insertText', false, text).
\* Keyboard input reaches the editor only while the form popup is hidden.
InsertText(text) ==
    /\ pc = "idle"
    /\ popupEl.display = "none"
    /\ sel > 0 \/ Len(kids) < MaxNodes
    /\ editorEl' = withKids(insertAtSelection(kids, sel, TextNode(text)))
    /\ sel' = 0
    /\ alerts' = <<>>
    /\ execLog' = <<Call("insertText", text)>>
    /\ ret' = Null
    /\ UNCHANGED <<savedSelection, popupEl, emojiPickerEl, arg, pc>>

\* The user selects node i, or puts the caret at the end (i = 0), with the
\* mouse: the editor's click listener selects a clicked image, and the click
\* reaches the document listener, which closes the popups.
ClickEditor(i) ==
    /\ pc = "idle"
    /\ sel' = i
    /\ popupEl' = closedPopup
    /\ emojiPickerEl' = "none"
    /\ NoEffects
    /\ UNCHANGED <<editorEl, savedSelection, arg, pc>>

\* Global click listener of bindEvents: a click outside editor and popups.
DocumentClick ==
    /\ pc = "idle"
    /\ IF AnyPopupShown
       THEN popupEl' = closedPopup /\ emojiPickerEl' = "none"
       ELSE UNCHANGED <<popupEl, emojiPickerEl>>
    /\ sel' \in {sel, 0}
    /\ NoEffects
    /\ UNCHANGED <<editorEl, savedSelection, arg, pc>>

\* openFormPopup(inst, type, triggerBtn, existingNode) up to the popup display
openFormPopup(type, existingNode) ==
    /\ emojiPickerEl' = "none"
    /\ savedSelection' = sel
    /\ sel' = IF type = "link" /\ existingNode # NoNode THEN existingNode ELSE sel
    /\ popupEl' = [display |-> "flex", type |-> type, existingNode |-> existingNode]

\* Variant whose emoji button shows the picker without closeAllPopups first.
HandleToolbarClick_emojiNoClose(cmd) ==
    /\ pc = "idle"
    /\ CASE cmd = "createLink" ->
              IF popupEl.display = "flex"
              THEN /\ popupEl' = closedPopup
                   /\ emojiPickerEl' = "none"
                   /\ UNCHANGED <<sel, savedSelection>>
              ELSE openFormPopup("link", getLinkAtCursor)
         [] cmd = "customInsertImage" ->
              IF popupEl.display = "flex"
              THEN /\ popupEl' = closedPopup
                   /\ emojiPickerEl' = "none"
                   /\ UNCHANGED <<sel, savedSelection>>
              ELSE openFormPopup("image", getImageAtCursor)
         [] cmd = "toggleEmoji" ->
              IF emojiPickerEl = "grid"
              THEN /\ popupEl' = closedPopup
                   /\ emojiPickerEl' = "none"
                   /\ UNCHANGED <<sel, savedSelection>>
              ELSE /\ popupEl' = popupEl
                   /\ savedSelection' = sel
                   /\ emojiPickerEl' = "grid"
                   /\ UNCHANGED sel
    /\ NoEffects
    /\ UNCHANGED <<editorEl, arg, pc>>

\* handleToolbarClick for the buttons createLink, customInsertImage, toggleEmoji
HandleToolbarClick(cmd) ==
    /\ pc = "idle"
    /\ CASE cmd = "createLink" ->
              IF popupEl.display = "flex"
              THEN /\ popupEl' = closedPopup
                   /\ emojiPickerEl' = "none"
                   /\ UNCHANGED <<sel, savedSelection>>
              ELSE openFormPopup("link", getLinkAtCursor)
         [] cmd = "customInsertImage" ->
              IF popupEl.display = "flex"
              THEN /\ popupEl' = closedPopup
                   /\ emojiPickerEl' = "none"
                   /\ UNCHANGED <<sel, savedSelection>>
              ELSE openFormPopup("image", getImageAtCursor)
         [] cmd = "toggleEmoji" ->
              IF emojiPickerEl = "grid"
              THEN /\ popupEl' = closedPopup
                   /\ emojiPickerEl' = "none"
                   /\ UNCHANGED <<sel, savedSelection>>
              ELSE /\ popupEl' = closedPopup
                   /\ savedSelection' = sel
                   /\ emojiPickerEl' = "grid"
                   /\ UNCHANGED sel
    /\ NoEffects
    /\ UNCHANGED <<editorEl, arg, pc>>

\* #ichik-btn-cancel onclick
CancelClick ==
    /\ pc = "idle"
    /\ popupEl.display = "flex"
    /\ popupEl' = closedPopup
    /\ emojiPickerEl' = "none"
    /\ NoEffects
    /\ UNCHANGED <<editorEl, sel, savedSelection, arg, pc>>

\* onclick of an emoji of the picker
EmojiClick(emoji) ==
    /\ pc = "idle"
    /\ emojiPickerEl = "grid"
    /\ savedSelection > 0 \/ Len(kids) < MaxNodes
    /\ editorEl' = withKids(insertAtSelection(kids, savedSelection, TextNode(<<emoji>>)))
    /\ sel' = 0
    /\ popupEl' = closedPopup
    /\ emojiPickerEl' = "none"
    /\ alerts' = <<>>
    /\ execLog' = <<Call("insertText", <<emoji>>)>>
    /\ ret' = Null
    /\ UNCHANGED <<savedSelection, arg, pc>>

FieldUrls ==
    { <<>>, <<" ">>,
      S_https \o <<"x", "\"", "<">>,
      <<"x", "\"", "<">>,
      S_http \o <<"x">>,
      <<"f","t","p">> \o S_sep \o <<"x">> }
FieldAlts == {<<>>, <<"\"", ">">>}
FieldWidths == {<<>>, <<"5">>, <<"5", "%">>, <<"5", "\"">>}

\* Variant of the link branch that links the raw field value when the
\* validator rejects it (no `if (secureUrl)` guard).
saveLink_linkOnReject(k, s, urlVal) ==
    IF ~Truthy(trim(urlVal))
    THEN [kids |-> unlink(k, s), alerts |-> <<>>, log |-> <<Call("unlink", <<>>)>>]
    ELSE LET check == enforceHttps(urlVal, messages)
             href == IF TruthyVal(check.ret) THEN check.ret.val ELSE urlVal
         IN [kids |-> createLink(k, s, href), alerts |-> check.alerts,
             log |-> <<Call("enforceHttps", urlVal), Call("createLink", href)>>]

\* Save handler, type === 'link' (after restoreSelection): the new top-level
\* nodes, the alerts raised and the calls made.
saveLink(k, s, urlVal) ==
    IF ~Truthy(trim(urlVal))
    THEN [kids |-> unlink(k, s), alerts |-> <<>>, log |-> <<Call("unlink", <<>>)>>]
    ELSE LET check == enforceHttps(urlVal, messages)
             secureUrl == check.ret
         IN IF TruthyVal(secureUrl)
            THEN [kids |-> createLink(k, s, secureUrl.val), alerts |-> check.alerts,
                  log |-> <<Call("enforceHttps", urlVal), Call("createLink", secureUrl.val)>>]
            ELSE [kids |-> k, alerts |-> check.alerts,
                  log |-> <<Call("enforceHttps", urlVal)>>]

\* if (w && /^\d+(px|%)?$/.test(w)) setAttribute('width', w), on a given node
withWidth(node, w) ==
    IF Truthy(w) /\ WidthRegex(w) THEN setAttribute(node, "width", w) ELSE node

\* Variant: the image gets the raw field value as its src.
saveImage_rawSrc(k, s, existingNode, urlVal, altVal, wVal) ==
    LET check == enforceHttps(urlVal, messages)
        secureUrl == check.ret
        alt == altVal
        w == wVal
    IN IF ~TruthyVal(secureUrl)
       THEN [kids |-> k, alerts |-> check.alerts, log |-> <<Call("enforceHttps", urlVal)>>]
       ELSE IF existingNode # NoNode
       THEN [kids |-> [k EXCEPT ![existingNode] =
                         LET n == setAttribute(setAttribute(@, "src", urlVal), "alt", alt)
                         IN IF Truthy(w) /\ WidthRegex(w)
                            THEN setAttribute(n, "width", w)
                            ELSE removeAttribute(n, "width")],
             alerts |-> check.alerts,
             log |-> <<Call("enforceHttps", urlVal), Call("img.src", urlVal)>>]
       ELSE LET dummyImg == withWidth(setAttribute(setAttribute(
                                Element("IMG", {}, <<>>), "src", urlVal), "alt", alt), w)
            IN [kids |-> insertAtSelection(k, s, insertedFromOuterHTML(dummyImg)),
                alerts |-> check.alerts,
                log |-> <<Call("enforceHttps", urlVal), Call("img.src", urlVal)>>]

\* Variant of the image branch whose update path only sets a matching width
\* and never removes the attribute.
saveImage_keepsOldWidth(k, s, existingNode, urlVal, altVal, wVal) ==
    LET check == enforceHttps(urlVal, messages)
        secureUrl == check.ret
        alt == altVal
        w == wVal
    IN IF ~TruthyVal(secureUrl)
       THEN [kids |-> k, alerts |-> check.alerts, log |-> <<Call("enforceHttps", urlVal)>>]
       ELSE IF existingNode # NoNode
       THEN [kids |-> [k EXCEPT ![existingNode] =
                         withWidth(setAttribute(setAttribute(@, "src", secureUrl.val),
                                                "alt", alt), w)],
             alerts |-> check.alerts,
             log |-> <<Call("enforceHttps", urlVal), Call("img.src", secureUrl.val)>>]
       ELSE LET dummyImg == withWidth(setAttribute(setAttribute(
                                Element("IMG", {}, <<>>), "src", secureUrl.val), "alt", alt), w)
            IN [kids |-> insertAtSelection(k, s, insertedFromOuterHTML(dummyImg)),
                alerts |-> check.alerts,
                log |-> <<Call("enforceHttps", urlVal), Call("img.src", secureUrl.val)>>]

\* Save handler, type === 'image' (after restoreSelection)
saveImage(k, s, existingNode, urlVal, altVal, wVal) ==
    LET check == enforceHttps(urlVal, messages)
        secureUrl == check.ret
        alt == altVal
        w == wVal
    IN IF ~TruthyVal(secureUrl)
       THEN [kids |-> k, alerts |-> check.alerts, log |-> <<Call("enforceHttps", urlVal)>>]
       ELSE IF existingNode # NoNode
       THEN [kids |-> [k EXCEPT ![existingNode] =
                         LET n == setAttribute(setAttribute(@, "src", secureUrl.val), "alt", alt)
                         IN IF Truthy(w) /\ WidthRegex(w)
                            THEN setAttribute(n, "width", w)
                            ELSE removeAttribute(n, "width")],
             alerts |-> check.alerts,
             log |-> <<Call("enforceHttps", urlVal), Call("img.src", secureUrl.val)>>]
       ELSE LET dummyImg == withWidth(setAttribute(setAttribute(
                                Element("IMG", {}, <<>>), "src", secureUrl.val), "alt", alt), w)
            IN [kids |-> insertAtSelection(k, s, insertedFromOuterHTML(dummyImg)),
                alerts |-> check.alerts,
                log |-> <<Call("enforceHttps", urlVal), Call("img.src", secureUrl.val)>>]

\* #ichik-btn-save onclick, with the values of the form fields at the click
SaveClick(urlVal, altVal, wVal) ==
    /\ pc = "idle"
    /\ popupEl.display = "flex"
    /\ popupEl.type = "link" => altVal = <<>> /\ wVal = <<>>
    /\ LET s == savedSelection
           r == IF popupEl.type = "link"
                THEN saveLink(kids, s, urlVal)
                ELSE saveImage(kids, s, popupEl.existingNode, urlVal, altVal, wVal)
           inserts == /\ popupEl.type = "image"
                      /\ popupEl.existingNode = NoNode
                      /\ TruthyVal(enforceHttps(urlVal, messages).ret)
       IN /\ inserts => s > 0 \/ Len(kids) < MaxNodes
          /\ editorEl' = withKids(r.kids)
          /\ alerts' = r.alerts
          /\ execLog' = r.log
          /\ sel' = IF inserts THEN 0 ELSE s
    /\ popupEl' = closedPopup
    /\ emojiPickerEl' = "none"
    /\ ret' = Null
    /\ UNCHANGED <<savedSelection, arg, pc>>

Next ==
    \/ \E text \in TypedTexts : InsertText(text)
    \/ \E i \in 0..Len(kids) : ClickEditor(i)
    \/ DocumentClick
    \/ \E cmd \in {"createLink", "customInsertImage", "toggleEmoji"} : HandleToolbarClick(cmd)
    \/ \E u \in FieldUrls, a \in FieldAlts, w \in FieldWidths : SaveClick(u, a, w)
    \/ CancelClick
    \/ \E e \in Range(EMOJI_LIST) : EmojiClick(e)
    \/ GetMarkdown

Spec == Init /\ [][Next]_vars

----------------------------------------------------------------------------
(* Claims about the editor (Spec) *)

HttpsPrefixed(u) == startsWith(toLowerCase(u), S_https)

\* C2: every href handed to createLink and every src written to an image is
\* the value the validator returned for the URL submitted in that same save,
\* computed before the assignment, and starts (case-insensitively) with
\* https://; so does every href and src in the tree after any sequence of
\* saves.
C2_OnlyValidatedUrlsAttached ==
    /\ \A i \in DOMAIN execLog :
          execLog[i].fn \in {"createLink", "img.src"} =>
              /\ i > 1
              /\ execLog[i - 1].fn = "enforceHttps"
              /\ enforceHttps(execLog[i - 1].arg, messages).ret = Some(execLog[i].arg)
              /\ HttpsPrefixed(execLog[i].arg)
    /\ \A o \in Occurrences(editorEl) :
          /\ IsTag(NodeAt(o), "A") =>
                /\ ~getAttribute(NodeAt(o), "href").null
                /\ HttpsPrefixed(getAttribute(NodeAt(o), "href").val)
          /\ IsTag(NodeAt(o), "IMG") =>
                /\ ~getAttribute(NodeAt(o), "src").null
                /\ HttpsPrefixed(getAttribute(NodeAt(o), "src").val)

C2_Witness ==
    /\ Len(execLog) = 2
    /\ execLog[1] = Call("enforceHttps", <<"x", "\"", "<">>)
    /\ execLog[2].fn = "img.src"
    /\ \E i \in DOMAIN kids :
          /\ IsTag(kids[i], "IMG")
          /\ getAttribute(kids[i], "src") = Some(S_https \o <<"x", "\"", "<">>)

RECURSIVE CountChar(_, _)
CountChar(s, c) ==
    IF s = <<>> THEN 0 ELSE (IF Head(s) = c THEN 1 ELSE 0) + CountChar(Tail(s), c)

\* Number of images below node that are rendered with the raw tag template.
RECURSIVE RawImages(_)
RECURSIVE RawImagesFrom(_, _)
RawImagesFrom(node, i) ==
    IF i > Len(node.childNodes) THEN 0
    ELSE RawImages(node.childNodes[i]) + RawImagesFrom(node, i + 1)
RawImages(node) ==
    IF node.nodeType = TEXT_NODE THEN 0
    ELSE (IF IsTag(node, "IMG") /\ TruthyVal(getAttribute(node, "width")) THEN 1 ELSE 0)
         + RawImagesFrom(node, 1)

\* C8: in the Markdown returned for a tree built with the editor's own input
\* operations, < > and " occur only as the characters of the raw image-tag
\* template (one <, one > and six " per image rendered that way), never as a
\* copy of a character the user entered as text, alt text, URL or width.
C8_NoUserMarkupInMarkdown ==
    ~ret.null =>
        /\ CountChar(ret.val, "<") = RawImages(editorEl)
        /\ CountChar(ret.val, ">") = RawImages(editorEl)
        /\ CountChar(ret.val, "\"") = 6 * RawImages(editorEl)

----------------------------------------------------------------------------
(* More claims about the serializer (SpecSer) *)

\* A child that contributes only white space: blank text or a line break.
IsBlankChild(n) ==
    IF n.nodeType = TEXT_NODE THEN trim(n.textContent) = <<>> ELSE n.tagName = "BR"

S_scriptEscaped == <<"&","l","t",";","s","c","r","i","p","t","&","g","t",";","\n","\n">>

\* C11: a Paragraph or Div is rendered as its children's serializations
\* followed by exactly "\n\n" when that content is non-blank after trimming,
\* and as the empty string when it is blank, in particular when it is empty or
\* holds only white space or line breaks; P[Text("<script>")] gives
\* "&lt;script&gt;\n\n".
C11_BlockBlankOrClosed ==
    ~ret.null =>
        \A o \in Occurrences(container(editorEl)) :
            LET n == NodeAt(o) IN
            (IsTag(n, "P") \/ IsTag(n, "DIV")) =>
                LET content == parseChildren(n, 1) IN
                /\ Serialized(o) = IF trim(content) = <<>> THEN <<>>
                                   ELSE content \o <<"\n", "\n">>
                /\ (\A i \in DOMAIN n.childNodes : IsBlankChild(n.childNodes[i])) =>
                       Serialized(o) = <<>>
                /\ n = Element("P", {}, <<T_script>>) => Serialized(o) = S_scriptEscaped

C11_Witness ==
    /\ \E i \in DOMAIN kids :
          /\ IsTag(kids[i], "P")
          /\ Len(kids[i].childNodes) = 2
          /\ \A j \in DOMAIN kids[i].childNodes : IsBlankChild(kids[i].childNodes[j])
    /\ ret = Some(<<>>)

----------------------------------------------------------------------------
(* More claims about the editor (Spec) *)

SaveStep ==
    /\ popupEl.display = "flex"
    /\ popupEl'.display = "none"
    /\ execLog' # <<>>

\* The URL field submitted by the save step was empty or blank.
BlankSubmitted ==
    \/ execLog'[1].fn = "unlink"
    \/ execLog'[1].fn = "enforceHttps" /\ trim(execLog'[1].arg) = <<>>

EmptyOrSchemeOnly(v) == v.null \/ toLowerCase(trim(v.val)) \in {<<>>, S_https}

\* C13: saving a popup with an empty or blank URL clears instead of failing:
\* the link popup removes the selected link, the image popup removes the
\* existing image it was opened on, no message is surfaced, and no link or
\* image with an empty or scheme-only URL comes into being.
C13_BlankUrlClears ==
    [][SaveStep /\ BlankSubmitted =>
          /\ alerts' = <<>>
          /\ (popupEl.type = "link" /\ savedSelection > 0
                  /\ IsTag(kids[savedSelection], "A")) =>
                ~IsTag(editorEl'.childNodes[savedSelection], "A")
          /\ (popupEl.type = "image" /\ popupEl.existingNode # NoNode) =>
                /\ Len(editorEl'.childNodes) = Len(kids) - 1
                /\ kids[popupEl.existingNode] \notin Range(editorEl'.childNodes)
          /\ \A o \in Occurrences(editorEl') :
                /\ IsTag(NodeAt(o), "A") => ~EmptyOrSchemeOnly(getAttribute(NodeAt(o), "href"))
                /\ IsTag(NodeAt(o), "IMG") => ~EmptyOrSchemeOnly(getAttribute(NodeAt(o), "src"))
      ]_vars

\* The save step submitted a URL that the validator rejects with a message
\* (http:// or another scheme://).
RejectedSubmitted ==
    /\ execLog'[1].fn = "enforceHttps"
    /\ LET check == enforceHttps(execLog'[1].arg, messages)
       IN ~TruthyVal(check.ret) /\ check.alerts # <<>>

\* C14: when the validator rejects the URL submitted in a link or image
\* popup, the save leaves the content tree as it was (no link, no image, an
\* existing image keeps src, alt and width); its only effects are the one
\* message and the popup closing, and the only call made is the validation.
C14_RejectedSaveChangesNothing ==
    [][SaveStep /\ RejectedSubmitted =>
          /\ editorEl' = editorEl
          /\ UNCHANGED <<sel, savedSelection>>
          /\ execLog' = <<Call("enforceHttps", execLog'[1].arg)>>
          /\ alerts' = enforceHttps(execLog'[1].arg, messages).alerts
          /\ Len(alerts') = 1
          /\ popupEl' = closedPopup
          /\ emojiPickerEl' = "none"
      ]_vars

\* The last step was a rejected update (http://x) of an existing image that
\* has a width.
C14_Witness ==
    /\ alerts # <<>>
    /\ popupEl.display = "none"
    /\ popupEl.type = "image"
    /\ popupEl.existingNode # NoNode
    /\ IsTag(kids[popupEl.existingNode], "IMG")
    /\ ~getAttribute(kids[popupEl.existingNode], "width").null
    /\ execLog = <<Call("enforceHttps", S_http \o <<"x">>)>>

\* Where the image written by an image save is among the top-level nodes
\* afterwards: the existing node, the replaced selection, or the end.
SavedImageAt ==
    IF popupEl.existingNode # NoNode THEN popupEl.existingNode
    ELSE IF savedSelection > 0 THEN savedSelection
    ELSE Len(editorEl'.childNodes)

\* The save step is an image save whose submitted URL the validator accepts.
AcceptedImageSubmitted ==
    /\ popupEl.type = "image"
    /\ execLog'[1].fn = "enforceHttps"
    /\ TruthyVal(enforceHttps(execLog'[1].arg, messages).ret)

\* C15: every image save (insert or update) with an accepted URL goes
\* through whatever the width field holds, and leaves the image with a width
\* attribute exactly when the submitted width is digits optionally followed
\* by px or %, the attribute then being the submitted value; otherwise the
\* image has no width attribute, whatever it had before.
C15_WidthFollowsLastSave ==
    [][SaveStep /\ AcceptedImageSubmitted =>
          LET u == execLog'[1].arg
              img == editorEl'.childNodes[SavedImageAt]
          IN /\ alerts' = <<>>
             /\ Len(execLog') = 2 /\ execLog'[2].fn = "img.src"
             /\ IsTag(img, "IMG")
             /\ getAttribute(img, "src") = enforceHttps(u, messages).ret
             /\ \A a \in FieldAlts, w \in FieldWidths :
                   SaveClick(u, a, w) =>
                      getAttribute(img, "width") =
                          IF WidthRegex(w) THEN Some(w) ELSE Null
             /\ \E a \in FieldAlts, w \in FieldWidths : SaveClick(u, a, w)
      ]_vars

\* The last step was an accepted update of an existing image that leaves it
\* without a width.
C15_Witness ==
    /\ Len(execLog) = 2
    /\ execLog[2].fn = "img.src"
    /\ popupEl.type = "image"
    /\ popupEl.existingNode # NoNode
    /\ IsTag(kids[popupEl.existingNode], "IMG")
    /\ getAttribute(kids[popupEl.existingNode], "width").null

BothHidden == popupEl.display = "none" /\ emojiPickerEl = "none"

\* C16: at most one of the form popup and the emoji picker is displayed in
\* every reachable state; a click on the link or image button while the form
\* popup is displayed closes it instead of opening another form; every save,
\* cancel, emoji selection and outside document click leaves both hidden.
C16_OnePopupAtATime ==
    /\ [](popupEl.display = "none" \/ emojiPickerEl = "none")
    /\ [][/\ (/\ popupEl.display = "flex"
              /\ \E cmd \in {"createLink", "customInsertImage"} :
                    HandleToolbarClick(cmd)) => BothHidden'
          /\ (\/ CancelClick
              \/ DocumentClick
              \/ \E e \in Range(EMOJI_LIST) : EmojiClick(e)
              \/ \E u \in FieldUrls, a \in FieldAlts, w \in FieldWidths :
                    SaveClick(u, a, w)) => BothHidden'
       ]_vars

\* The emoji picker is displayed after a form popup has been used, and the
\* form popup is hidden.
C16_Witness ==
    /\ emojiPickerEl = "grid"
    /\ popupEl.type # ""
    /\ popupEl.display = "none"
    /\ kids # <<>>

====
